---- MODULE Spec2Model ----
(***************************************************************************)
(* SABB (betillogalvanfbc/sabb), src/main.go: the HackerOne fetcher        *)
(* (Fetch, doRequestWithRetry, doRequest, fetchEligibleAssets,             *)
(* safeUnmarshal) and the part of main that owns the output file and its   *)
(* buffered writer.                                                        *)
(*                                                                         *)
(* Text is modelled as sequences of tokens: an error message is a sequence *)
(* of words, an output line a sequence of characters ended by "\n".        *)
(***************************************************************************)
EXTENDS Integers, Sequences, FiniteSets, TLC

\* ------------------------------------------------------------- bounds
\* The platform serves at most MaxPages non-empty programs pages.
MaxPages == 2
\* A programs page holds at most MaxProgs rows.
MaxProgs == 2
\* Capacity of the buffered writer, in characters (scaled down from bufio's).
BufSize == 4
\* The -program flag names at most MaxNames platforms.
MaxNames == 3
\* The credential strings handed to Fetch have at most MaxCredLen characters.
MaxCredLen == 3
\* The deadline fires before Fetch requests a page past MaxRequested.
MaxRequested == MaxPages + 2

\* ---------------------------------------------------------- constants
\* Mutant of MaxAttempts: one attempt too many.
MaxAttempts_Four == 3 + 1

\* doRequestWithRetry: for attempt := 0; attempt < 3; attempt++
MaxAttempts == 3

\* ------------------------------------------------------------ helpers
Nil == <<>>

NoBody == [kind |-> "none", data |-> <<>>]

Pow2(n) == IF n = 0 THEN 1 ELSE IF n = 1 THEN 2 ELSE IF n = 2 THEN 4 ELSE 8

\* strings.Contains on token sequences: sub occurs in s as a contiguous run.
Contains(s, sub) ==
  \E i \in 1..(Len(s) - Len(sub) + 1) : SubSeq(s, i, i + Len(sub) - 1) = sub

\* All sequences over S of length lo..hi.
Min(a, b) == IF a < b THEN a ELSE b
Max(a, b) == IF a > b THEN a ELSE b

\* s[:n]
Take(s, n) == SubSeq(s, 1, Min(Max(n, 0), Len(s)))

SeqsOf(S, lo, hi) == UNION {[1..n -> S] : n \in lo..hi}

\* ---------------------------------------------------- the platform (input)
\* Handles are unique per row; the handle of row i of page p.
HandleNames ==
  << <<"h11", "h12", "h13">>,
     <<"h21", "h22", "h23">>,
     <<"h31", "h32", "h33">> >>

\* The programs pages the platform can hold: row i of page p carries the
\* handle HandleNames[p][i] and any offers_bounties flag.
PageOf(p, flags) ==
  [i \in 1..Len(flags) |->
     [handle |-> HandleNames[p][i], offers_bounties |-> flags[i]]]

Worlds ==
  UNION {
    {[p \in 1..n |-> PageOf(p, fl[p])] :
        fl \in [1..n -> SeqsOf(BOOLEAN, 1, MaxProgs)]}
    : n \in 0..MaxPages}

\* The platforms of the runs over several names or credentials: at most one programs page
\* of one row.
MainWorlds ==
  {w \in Worlds : Len(w) <= 1 /\ \A p \in 1..Len(w) : Len(w[p]) <= 1}

\* Scope pages the platform serves (structured_scopes of a handle).
Entry(e, a) == [eligible_for_bounty |-> e, asset_identifier |-> a]

ScopeChoices ==
  << <<Entry(FALSE, <<"a">>), Entry(TRUE, <<"b", "b">>)>>,
     <<>>,
     <<Entry(TRUE, <<"a">>), Entry(FALSE, <<"b", "b">>), Entry(TRUE, <<"a">>)>>,
     <<Entry(TRUE, <<"c", "c", "c", "c", "c", "c">>), Entry(FALSE, <<"a">>)>> >>

HandlePos(h) ==
  CHOOSE pi \in (1..3) \X (1..3) : HandleNames[pi[1]][pi[2]] = h

ScopeOf(h) ==
  LET pi == HandlePos(h)
  IN  ScopeChoices[(((pi[1] - 1) * 2 + (pi[2] - 1)) % 4) + 1]

\* ------------------------------------------------ the command line (input)
\* unicode.IsSpace
IsSpace(r) == r \in {" ", "\t", "\n"}

\* sanitizeKey: the string without its space characters.
sanitizeKey(k) == SelectSeq(k, LAMBDA r : ~IsSpace(r))

\* The -username and -apikey flags, as typed (characters).
UsernameFlag == <<"u", " ">>
ApiKeyFlag == <<" ", "k", "\n">>

\* main: strings.ToLower(strings.TrimSpace(p)), on the names the model uses.
NormalizeName(p) ==
  CASE p = " HackerOne" -> "hackerone"
    [] p = "Bugcrowd " -> "bugcrowd"
    [] OTHER -> p

\* main: the keys of fetchers.
Fetchers == {"hackerone", "intigriti", "bugcrowd"}

\* The names a -program flag is made of.
RawNames == {" HackerOne", "intigriti", "Bugcrowd ", "yeswehack"}

\* main: the credentials handed to the fetcher of p.
Credentials(p) ==
  IF p = "hackerone"
    THEN sanitizeKey(UsernameFlag) \o <<":">> \o sanitizeKey(ApiKeyFlag)
    ELSE sanitizeKey(ApiKeyFlag)

\* notImplementedFetcher.Fetch: its error.
NotImplementedErr(p) ==
  <<"fetcher", "para",
    IF p = "intigriti" THEN "Intigriti" ELSE "Bugcrowd",
    "aun", "no", "implementado">>

\* Mutant of FirstColon: the position of the last ":" of s.
FirstColon_Last(s) ==
  IF \E i \in 1..Len(s) : s[i] = ":"
    THEN CHOOSE i \in 1..Len(s) :
           s[i] = ":" /\ \A j \in (i + 1)..Len(s) : s[j] # ":"
    ELSE 0

\* Fetch: the position of the first ":" of s (0: none).
FirstColon(s) ==
  IF \E i \in 1..Len(s) : s[i] = ":"
    THEN CHOOSE i \in 1..Len(s) :
           s[i] = ":" /\ \A j \in 1..(i - 1) : s[j] # ":"
    ELSE 0

\* Fetch: strings.SplitN(apiKey, ":", 2)
SplitN2(s) ==
  IF FirstColon(s) = 0
    THEN <<s>>
    ELSE <<SubSeq(s, 1, FirstColon(s) - 1),
           SubSeq(s, FirstColon(s) + 1, Len(s))>>

\* Fetch: base64.StdEncoding.EncodeToString([]byte(username + ":" + key))
BasicAuth(username, key) == <<"base64">> \o username \o <<":">> \o key

\* Fetch: the error on credentials without a separator.
InvalidCredErr == <<"formato", "de", "credenciales", "invalido">>

VARIABLES
  programsPages,  \* the platform's non-empty programs pages (input)
  pc,             \* position of the single thread of control
  ctxDone,        \* the context's deadline has fired (ctx.Done() is closed)
  page,           \* Fetch: page
  pg,             \* Fetch: pg.Data of the decoded programs page
  idx,            \* Fetch: position of d in range pg.Data
  url,            \* the url of the current doRequestWithRetry call
  calls,          \* urls passed to doRequestWithRetry so far, in order
  attempt,        \* doRequestWithRetry: attempt
  nreq,           \* doRequest calls made by the current doRequestWithRetry
  sleeps,         \* backoff sleeps completed by the current call
  slept,          \* seconds slept by the current call
  lastErr,        \* doRequestWithRetry: lastErr
  body,           \* body returned by doRequestWithRetry
  assets,         \* Fetch: assets still to be written for the program
  processed,      \* Fetch: processed
  err,            \* the error Fetch returned (Nil: none)
  buf,            \* main: writer (bufio.Writer), characters not yet flushed
  file,           \* main: f, the characters in the output file
  clean,          \* every round trip returned the platform's page, context live
  names,          \* main: strings.Split(*programFlag, ",")
  ni,             \* main: position of p in range names
  total,          \* main: total
  invoked,        \* the fetchers main has invoked so far, in order
  counts,         \* the counts of the fetchers that returned without error
  printed,        \* <<total>> once main has printed the total (Nil: not yet)
  apiKey,         \* Fetch: apiKey, the combined credential string
  parts,          \* Fetch: parts
  auth,           \* Fetch: auth
  endless         \* the platform never serves an empty programs page

vars ==
  <<programsPages, pc, ctxDone, page, pg, idx, url, calls, attempt, nreq,
    sleeps, slept, lastErr, body, assets, processed, err, buf, file, clean,
    names, ni, total, invoked, counts, printed, apiKey, parts, auth, endless>>

\* ------------------------------------------------------ error messages
DeadlineExceeded == <<"deadline", "exceeded">>

\* ctx.Err() of a context whose deadline fired.
CtxErr == <<"context", "deadline", "exceeded">>

\* resp.Status
StatusText(code) ==
  CASE code = 200 -> <<"200", "OK">>
    [] code = 404 -> <<"404", "Not", "Found">>
    [] code = 401 -> <<"401", "Unauthorized">>
    [] code = 500 -> <<"500", "Internal", "Server", "Error">>
    [] code = 503 -> <<"503", "Service", "Unavailable">>
    [] code = 504 -> <<"504", "Gateway", "Timeout">>

StatusCodes == {200, 401, 404, 500, 503, 504}

\* ------------------------------------------------------------ requests
ProgramsURL(n) == [ep |-> "programs", page |-> n, handle |-> ""]

ScopeURL(h) == [ep |-> "structured_scopes", page |-> 0, handle |-> h]

\* The well-formed body the platform holds for a url.
ServerBody(u) ==
  IF u.ep = "programs"
    THEN [kind |-> "json",
          data |-> IF u.page <= Len(programsPages)
                     THEN programsPages[u.page]
                   ELSE IF endless
                     THEN programsPages[((u.page - 1) % Len(programsPages)) + 1]
                   ELSE <<>>]
    ELSE [kind |-> "json", data |-> ScopeOf(u.handle)]

\* What one round trip can come to: a transport failure, or a response.
Outcomes(u) ==
  {[t |-> "timeout", code |-> 0, body |-> NoBody],
   [t |-> "refused", code |-> 0, body |-> NoBody],
   [t |-> "eof", code |-> 200, body |-> NoBody]}
  \cup {[t |-> "response", code |-> c, body |-> NoBody] :
          c \in StatusCodes \ {200}}
  \cup {[t |-> "response", code |-> 200, body |-> b] :
          b \in {ServerBody(u),
                 [kind |-> "syntax", data |-> <<>>],
                 [kind |-> "mismatch", data |-> <<>>]}}

\* doRequest: the body, or the error of the round trip.
doRequest(done, o) ==
  IF done
    THEN [body |-> NoBody, err |-> <<"Get">> \o CtxErr]
  ELSE IF o.t = "timeout"
    THEN [body |-> NoBody,
          err |-> <<"Get">> \o CtxErr \o <<"(Client.Timeout", "exceeded)">>]
  ELSE IF o.t = "refused"
    THEN [body |-> NoBody, err |-> <<"Get", "connection", "refused">>]
  ELSE IF o.code >= 500
    THEN [body |-> NoBody,
          err |-> <<"API", "unavailable:">> \o StatusText(o.code)]
  ELSE IF o.code >= 400
    THEN [body |-> NoBody,
          err |-> <<"API", "returned", "error">> \o StatusText(o.code)]
  ELSE IF o.t = "eof"
    THEN [body |-> NoBody, err |-> <<"unexpected", "EOF">>]
  ELSE [body |-> o.body, err |-> Nil]

\* Mutant of Retryable: every error is retried.
Retryable_Always(e) == TRUE

\* doRequestWithRetry: "Si el error no es por timeout, no reintentamos".
Retryable(e) == Contains(e, DeadlineExceeded)

\* doRequestWithRetry: delay := time.Duration(1<<uint(attempt)) * time.Second
Delay(a) == Pow2(a)

\* doRequestWithRetry: the error returned once the attempts are used up.
Exhausted(e) == <<"despues", "de", "3", "intentos:">> \o e

\* Fetch: the error returned for a failed call, by the kind of call.
FetchWrap(u, e) ==
  IF u.ep = "programs"
    THEN <<"programs", "page", "request", "failed:">> \o e
    ELSE <<"handle", u.handle, "failed:">> \o e

\* Mutant of safeUnmarshal: the decode error is dropped.
safeUnmarshal_Swallows(b) == [data |-> b.data, err |-> Nil]

\* safeUnmarshal: json.Unmarshal into the page struct. On a panic the
\* deferred func recovers and logs; the function has no named result, so it
\* returns the zero value of error, nil, and v keeps what was decoded before
\* the panic (the data of a "fault" body).
safeUnmarshal(b) ==
  CASE b.kind = "json" -> [data |-> b.data, err |-> Nil]
    [] b.kind = "fault" -> [data |-> b.data, err |-> Nil]
    [] b.kind = "syntax" ->
         [data |-> <<>>,
          err |-> <<"JSON", "decode", "failed:", "invalid", "character">>]
    [] OTHER ->
         [data |-> <<>>,
          err |-> <<"JSON", "decode", "failed:", "cannot", "unmarshal">>]

\* Mutant of OffersBounties: the filter lets every program through.
OffersBounties_Always(d) == TRUE

\* Fetch: if !d.Attributes.OffersBounties { continue }
OffersBounties(d) == d.offers_bounties

\* Mutant of NextPage: a page is skipped.
NextPage_SkipsOne(p) == p + 2

\* Fetch: for page := 1; ; page++
NextPage(p) == p + 1

\* Fetch: if len(pg.Data) == 0 { break }
NoMorePages(d) == Len(d) = 0

\* Mutant of TimerWins: the sleep is not cancellable (a plain time.Sleep).
TimerWins_Always(done) == TRUE

\* doRequestWithRetry's select: time.After(delay) can win only while
\* ctx.Done() is not closed.
TimerWins(done) == ~done

\* Mutant of EligibleAssets: no filter on eligible_for_bounty.
EligibleAssets_All(d) == [i \in 1..Len(d) |-> d[i].asset_identifier]

\* fetchEligibleAssets: the filter over pg.Data.
RECURSIVE EligibleAssets(_)
EligibleAssets(d) ==
  IF d = <<>> THEN <<>>
  ELSE (IF Head(d).eligible_for_bounty
          THEN <<Head(d).asset_identifier>> ELSE <<>>)
       \o EligibleAssets(Tail(d))

\* bufio.Writer.Write on main's writer: [buf, file] after writing p.
RECURSIVE BufWrite(_, _, _)
BufWrite(b, f, p) ==
  IF Len(p) > BufSize - Len(b)
    THEN IF Len(b) = 0
           THEN [buf |-> <<>>, file |-> f \o p]
           ELSE LET n == BufSize - Len(b)
                IN  BufWrite(<<>>, f \o b \o SubSeq(p, 1, n),
                             SubSeq(p, n + 1, Len(p)))
    ELSE [buf |-> b \o p, file |-> f]

\* fmt.Fprintln(out, asset)
Fprintln(b, f, asset) == BufWrite(b, f, asset \o <<"\n">>)

\* --------------------------------------------------------------- Init
\* The state all runs start from, but for the input and the position.
Start ==
  /\ ctxDone = FALSE
  /\ page = 1
  /\ pg = <<>>
  /\ idx = 0
  /\ url = ProgramsURL(0)
  /\ calls = <<>>
  /\ attempt = 0
  /\ nreq = 0
  /\ sleeps = 0
  /\ slept = 0
  /\ lastErr = Nil
  /\ body = NoBody
  /\ assets = <<>>
  /\ processed = 0
  /\ err = Nil
  /\ buf = <<>>
  /\ file = <<>>
  /\ clean = TRUE
  /\ ni = 1
  /\ total = 0
  /\ invoked = <<>>
  /\ counts = <<>>
  /\ printed = Nil
  /\ parts = <<>>
  /\ auth = Nil

\* main run with the -program flag left at its default, "hackerone".
Init ==
  /\ programsPages \in Worlds
  /\ pc = "main"
  /\ names = <<"hackerone">>
  /\ apiKey = Nil
  /\ endless = FALSE
  /\ Start

\* ------------------------------------------------------------ actions
fetchVars == <<page, pg, idx, assets, processed>>
callVars == <<url, calls, attempt, nreq, sleeps, slept, lastErr, body>>
sinkVars == <<buf, file>>
mainVars == <<names, ni, total, invoked, counts, printed, apiKey>>
outerVars == <<mainVars, parts, auth, endless>>

\* The start of a doRequestWithRetry call for u.
BeginCall(u) ==
  /\ url' = u
  /\ calls' = Append(calls, u)
  /\ attempt' = 0
  /\ nreq' = 0
  /\ sleeps' = 0
  /\ slept' = 0
  /\ lastErr' = Nil
  /\ body' = NoBody
  /\ pc' = "request"

\* Mutant of Deadline: the context has no deadline (context.Background()).
Deadline_Never ==
  /\ FALSE
  /\ UNCHANGED vars

\* The context's deadline fires (context.WithTimeout in main).
Deadline ==
  /\ ~ctxDone
  /\ pc \in {"main", "fetch", "loop", "request", "sleep", "decode", "prog",
            "emit", "returned"}
  /\ ctxDone' = TRUE
  /\ clean' = FALSE
  /\ UNCHANGED <<programsPages, pc, fetchVars, callVars, err, sinkVars>>
  /\ UNCHANGED outerVars

\* Fetch: top of the page loop, the context is done.
FetchCancelled ==
  /\ pc = "loop"
  /\ ctxDone
  /\ pc' = "failed"
  /\ err' = CtxErr
  /\ UNCHANGED <<programsPages, ctxDone, fetchVars, callVars, sinkVars, clean>>
  /\ UNCHANGED outerVars

\* Mutant of FetchPage: the page loop does not look at the context.
FetchPage_NoCtxCheck ==
  /\ pc = "loop"
  /\ page <= MaxRequested
  /\ BeginCall(ProgramsURL(page))
  /\ UNCHANGED <<programsPages, ctxDone, fetchVars, err, sinkVars, clean>>
  /\ UNCHANGED outerVars

\* Fetch: top of the page loop, request the page.
FetchPage ==
  /\ pc = "loop"
  /\ ~ctxDone
  /\ page <= MaxRequested
  /\ BeginCall(ProgramsURL(page))
  /\ UNCHANGED <<programsPages, ctxDone, fetchVars, err, sinkVars, clean>>
  /\ UNCHANGED outerVars

\* doRequestWithRetry: one doRequest and what the loop does with its result.
Attempt ==
  /\ pc = "request"
  /\ \E o \in Outcomes(url) :
       LET r == doRequest(ctxDone, o)
       IN  /\ nreq' = nreq + 1
           /\ clean' = (clean /\ r.err = Nil /\ r.body = ServerBody(url))
           /\ IF r.err = Nil
                THEN /\ body' = r.body
                     /\ pc' = "decode"
                     /\ UNCHANGED <<lastErr, attempt, err>>
              ELSE IF ~Retryable(r.err)
                THEN /\ lastErr' = r.err
                     /\ pc' = "failed"
                     /\ err' = FetchWrap(url, r.err)
                     /\ UNCHANGED <<body, attempt>>
              ELSE IF attempt + 1 < MaxAttempts
                THEN /\ lastErr' = r.err
                     /\ attempt' = attempt + 1
                     /\ pc' = "sleep"
                     /\ UNCHANGED <<body, err>>
              ELSE /\ lastErr' = r.err
                   /\ attempt' = attempt + 1
                   /\ pc' = "failed"
                   /\ err' = FetchWrap(url, Exhausted(r.err))
                   /\ UNCHANGED body
  /\ UNCHANGED <<programsPages, ctxDone, fetchVars, url, calls, sleeps, slept,
                 sinkVars>>
  /\ UNCHANGED outerVars

\* doRequestWithRetry: the select, time.After(delay) fires first.
SleepElapsed ==
  /\ pc = "sleep"
  /\ TimerWins(ctxDone)
  /\ sleeps' = sleeps + 1
  /\ slept' = slept + Delay(attempt)
  /\ pc' = "request"
  /\ UNCHANGED <<programsPages, ctxDone, fetchVars, url, calls, attempt, nreq,
                 lastErr, body, err, sinkVars, clean>>
  /\ UNCHANGED outerVars

\* doRequestWithRetry: the select, ctx.Done() is closed.
SleepCancelled ==
  /\ pc = "sleep"
  /\ ctxDone
  /\ pc' = "failed"
  /\ err' = FetchWrap(url, CtxErr)
  /\ UNCHANGED <<programsPages, ctxDone, fetchVars, callVars, sinkVars, clean>>
  /\ UNCHANGED outerVars

\* Fetch: decode the programs page; an empty page ends the loop.
DecodePrograms ==
  /\ pc = "decode"
  /\ url.ep = "programs"
  /\ LET r == safeUnmarshal(body)
     IN  IF r.err # Nil
           THEN /\ pc' = "failed"
                /\ err' = r.err
                /\ UNCHANGED <<pg, idx>>
         ELSE IF NoMorePages(r.data)
           THEN /\ pc' = "returned"
                /\ err' = Nil
                /\ pg' = r.data
                /\ UNCHANGED idx
         ELSE /\ pc' = "prog"
              /\ pg' = r.data
              /\ idx' = 1
              /\ UNCHANGED err
  /\ UNCHANGED <<programsPages, ctxDone, page, assets, processed, callVars,
                 sinkVars, clean>>
  /\ UNCHANGED outerVars

\* Fetch: for _, d := range pg.Data is over, page++ (pg is declared anew in
\* each iteration of the page loop).
EndPage ==
  /\ pc = "prog"
  /\ idx > Len(pg)
  /\ page' = NextPage(page)
  /\ pg' = <<>>
  /\ idx' = 0
  /\ pc' = "loop"
  /\ UNCHANGED <<programsPages, ctxDone, assets, processed, callVars, err,
                 sinkVars, clean>>
  /\ UNCHANGED outerVars

\* Fetch: if !d.Attributes.OffersBounties { continue }
SkipProgram ==
  /\ pc = "prog"
  /\ idx <= Len(pg)
  /\ ~OffersBounties(pg[idx])
  /\ idx' = idx + 1
  /\ UNCHANGED <<programsPages, pc, ctxDone, page, pg, assets, processed,
                 callVars, err, sinkVars, clean>>
  /\ UNCHANGED outerVars

\* Fetch -> fetchEligibleAssets: request the program's scope.
FetchScope ==
  /\ pc = "prog"
  /\ idx <= Len(pg)
  /\ OffersBounties(pg[idx])
  /\ BeginCall(ScopeURL(pg[idx].handle))
  /\ UNCHANGED <<programsPages, ctxDone, fetchVars, err, sinkVars, clean>>
  /\ UNCHANGED outerVars

\* Mutant of DecodeScope: a scope that fails to decode is passed over and
\* Fetch goes on to the next row.
DecodeScope_Continues ==
  /\ pc = "decode"
  /\ url.ep = "structured_scopes"
  /\ LET r == safeUnmarshal(body)
     IN  IF r.err # Nil
           THEN /\ pc' = "prog"
                /\ idx' = idx + 1
                /\ UNCHANGED assets
           ELSE /\ pc' = "emit"
                /\ assets' = EligibleAssets(r.data)
                /\ UNCHANGED idx
  /\ UNCHANGED <<programsPages, ctxDone, page, pg, processed, callVars, err,
                 sinkVars, clean>>
  /\ UNCHANGED outerVars

\* fetchEligibleAssets: decode the scope page and filter it.
DecodeScope ==
  /\ pc = "decode"
  /\ url.ep = "structured_scopes"
  /\ LET r == safeUnmarshal(body)
     IN  IF r.err # Nil
           THEN /\ pc' = "failed"
                /\ err' = FetchWrap(url, r.err)
                /\ UNCHANGED assets
           ELSE /\ pc' = "emit"
                /\ assets' = EligibleAssets(r.data)
                /\ UNCHANGED err
  /\ UNCHANGED <<programsPages, ctxDone, page, pg, idx, processed, callVars,
                 sinkVars, clean>>
  /\ UNCHANGED outerVars

\* Mutant of WriteAsset: the counter goes up per asset written.
WriteAsset_Counts ==
  /\ pc = "emit"
  /\ assets # <<>>
  /\ LET w == Fprintln(buf, file, Head(assets))
     IN  /\ buf' = w.buf
         /\ file' = w.file
  /\ assets' = Tail(assets)
  /\ processed' = processed + 1
  /\ UNCHANGED <<programsPages, pc, ctxDone, page, pg, idx, callVars, err,
                 clean>>
  /\ UNCHANGED outerVars

\* Mutant of WriteAsset: the loop over the assets looks at the context
\* before each line and returns when it is done.
WriteAsset_ChecksCtx ==
  /\ pc = "emit"
  /\ assets # <<>>
  /\ IF ctxDone
       THEN /\ pc' = "failed"
            /\ err' = CtxErr
            /\ UNCHANGED <<buf, file, assets>>
       ELSE /\ LET w == Fprintln(buf, file, Head(assets))
               IN  /\ buf' = w.buf
                   /\ file' = w.file
            /\ assets' = Tail(assets)
            /\ UNCHANGED <<pc, err>>
  /\ UNCHANGED <<programsPages, ctxDone, page, pg, idx, processed, callVars,
                 clean>>
  /\ UNCHANGED outerVars

\* Fetch: for _, asset := range assets { fmt.Fprintln(out, asset) }
WriteAsset ==
  /\ pc = "emit"
  /\ assets # <<>>
  /\ LET w == Fprintln(buf, file, Head(assets))
     IN  /\ buf' = w.buf
         /\ file' = w.file
  /\ assets' = Tail(assets)
  /\ UNCHANGED <<programsPages, pc, ctxDone, page, pg, idx, processed,
                 callVars, err, clean>>
  /\ UNCHANGED outerVars

\* Fetch: processed++ and on to the next row.
ProgramDone ==
  /\ pc = "emit"
  /\ assets = <<>>
  /\ processed' = processed + 1
  /\ idx' = idx + 1
  /\ pc' = "prog"
  /\ UNCHANGED <<programsPages, ctxDone, page, pg, assets, callVars, err,
                 sinkVars, clean>>
  /\ UNCHANGED outerVars

\* Mutant of MainFatal: the error is logged and main goes on to the next name.
MainFatal_Continues ==
  /\ pc = "failed"
  /\ pc' = "main"
  /\ ni' = ni + 1
  /\ UNCHANGED <<programsPages, ctxDone, fetchVars, callVars, err, sinkVars,
                 clean, names, total, invoked, counts, printed, apiKey, parts,
                 auth, endless>>

\* main: Fetch returned an error; log.Fatalf ends the process at once
\* (os.Exit runs no deferred call: the writer is not flushed).
MainFatal ==
  /\ pc = "failed"
  /\ pc' = "fatal"
  /\ buf' = <<>>
  /\ UNCHANGED <<programsPages, ctxDone, fetchVars, callVars, err, file, clean>>
  /\ UNCHANGED outerVars

\* main: the fetcher returned nil: total += cnt, and on to the next name.
MainAccumulate ==
  /\ pc = "returned"
  /\ total' = total + processed
  /\ counts' = Append(counts, processed)
  /\ ni' = ni + 1
  /\ pc' = "main"
  /\ UNCHANGED <<programsPages, ctxDone, fetchVars, callVars, err, sinkVars,
                 clean, names, invoked, printed, apiKey, parts, auth, endless>>

\* main: p names no fetcher: log.Printf and continue.
MainSkipUnknown ==
  /\ pc = "main"
  /\ ni <= Len(names)
  /\ NormalizeName(names[ni]) \notin Fetchers
  /\ ni' = ni + 1
  /\ UNCHANGED <<programsPages, pc, ctxDone, fetchVars, callVars, err,
                 sinkVars, clean, names, total, invoked, counts, printed,
                 apiKey, parts, auth, endless>>

\* main: p names a fetcher: build its credentials and call its Fetch. The
\* Fetch of a notImplementedFetcher returns 0 and its error at once.
MainInvoke ==
  /\ pc = "main"
  /\ ni <= Len(names)
  /\ LET p == NormalizeName(names[ni])
     IN  /\ p \in Fetchers
         /\ invoked' = Append(invoked, p)
         /\ apiKey' = Credentials(p)
         /\ IF p = "hackerone"
              THEN /\ pc' = "fetch"
                   /\ UNCHANGED <<err, processed>>
              ELSE /\ pc' = "failed"
                   /\ err' = NotImplementedErr(p)
                   /\ processed' = 0
  /\ UNCHANGED <<programsPages, ctxDone, page, pg, idx, assets, callVars,
                 sinkVars, clean, names, ni, total, counts, printed, parts, auth,
                 endless>>

\* Fetch: split the credentials and build auth, or fail on their format.
FetchStart ==
  /\ pc = "fetch"
  /\ parts' = SplitN2(apiKey)
  /\ IF Len(parts') # 2
       THEN /\ pc' = "failed"
            /\ err' = InvalidCredErr
            /\ processed' = 0
            /\ UNCHANGED <<auth, page, pg, idx>>
       ELSE /\ auth' = BasicAuth(parts'[1], parts'[2])
            /\ processed' = 0
            /\ page' = 1
            /\ pg' = <<>>
            /\ idx' = 0
            /\ pc' = "loop"
            /\ UNCHANGED err
  /\ UNCHANGED <<programsPages, ctxDone, assets, callVars, sinkVars, clean,
                 mainVars, endless>>

\* main: the names are used up: print the total and return; the deferred
\* writer.Flush() and f.Close() run.
MainExit ==
  /\ pc = "main"
  /\ ni > Len(names)
  /\ printed' = <<total>>
  /\ pc' = "exited"
  /\ file' = file \o buf
  /\ buf' = <<>>
  /\ UNCHANGED <<programsPages, ctxDone, fetchVars, callVars, err, clean,
                 names, ni, total, invoked, counts, apiKey, parts, auth, endless>>

Next ==
  \/ MainInvoke
  \/ FetchStart
  \/ Deadline
  \/ FetchCancelled
  \/ FetchPage
  \/ Attempt
  \/ SleepElapsed
  \/ SleepCancelled
  \/ DecodePrograms
  \/ EndPage
  \/ SkipProgram
  \/ FetchScope
  \/ DecodeScope
  \/ WriteAsset
  \/ ProgramDone
  \/ MainFatal
  \/ MainAccumulate
  \/ MainExit

Spec == Init /\ [][Next]_vars

\* ------------------------------------------- a decoder that can panic
\* doRequestWithRetry: one attempt answered 200 with a body on which
\* json.Unmarshal will panic after it decoded some of the rows.
AttemptPanics ==
  /\ pc = "request"
  /\ ~ctxDone
  /\ \E n \in 0..Len(ServerBody(url).data) :
       body' = [kind |-> "fault", data |-> Take(ServerBody(url).data, n)]
  /\ nreq' = nreq + 1
  /\ clean' = FALSE
  /\ pc' = "decode"
  /\ UNCHANGED <<programsPages, ctxDone, fetchVars, url, calls, attempt,
                 sleeps, slept, lastErr, err, sinkVars>>
  /\ UNCHANGED outerVars

NextPanic ==
  \/ Next
  \/ AttemptPanics

SpecPanic == Init /\ [][NextPanic]_vars

\* ---------------------------------------------- Fetch on any credentials
\* Fetch, called with any credential string of at most MaxCredLen
\* characters, on a live context.
InitFetch ==
  /\ programsPages \in MainWorlds
  /\ pc = "fetch"
  /\ names = <<"hackerone">>
  /\ apiKey \in SeqsOf({"u", "k", ":"}, 0, MaxCredLen)
  /\ endless = FALSE
  /\ Start

NextFetch ==
  \/ FetchStart
  \/ Deadline
  \/ FetchCancelled
  \/ FetchPage
  \/ Attempt
  \/ SleepElapsed
  \/ SleepCancelled
  \/ DecodePrograms
  \/ EndPage
  \/ SkipProgram
  \/ FetchScope
  \/ DecodeScope
  \/ WriteAsset
  \/ ProgramDone

SpecFetch == InitFetch /\ [][NextFetch]_vars

\* ------------------------------------- a platform whose pages never end
\* One run of main on a platform that may serve its pages over and over,
\* never an empty one.
InitLive ==
  /\ programsPages \in MainWorlds
  /\ pc = "main"
  /\ names = <<"hackerone">>
  /\ apiKey = Nil
  /\ endless \in {e \in BOOLEAN : e => Len(programsPages) >= 1}
  /\ Start

\* The steps of the thread of control.
Step ==
  \/ MainInvoke
  \/ FetchStart
  \/ FetchCancelled
  \/ FetchPage
  \/ Attempt
  \/ SleepElapsed
  \/ SleepCancelled
  \/ DecodePrograms
  \/ EndPage
  \/ SkipProgram
  \/ FetchScope
  \/ DecodeScope
  \/ WriteAsset
  \/ ProgramDone
  \/ MainFatal
  \/ MainAccumulate
  \/ MainExit

NextLive ==
  \/ Step
  \/ Deadline

\* The thread of control is scheduled while it has a step to take (requests
\* end by the client's timeout, sleeps by their timer), and the timer of
\* context.WithTimeout fires.
SpecLive == InitLive /\ [][NextLive]_vars /\ WF_vars(Step) /\ WF_vars(Deadline)

\* ------------------------------------------------- main over several names
\* main, started with any -program flag of 1 to MaxNames names (strings.Split
\* returns at least one name).
InitMain ==
  /\ programsPages \in MainWorlds
  /\ pc = "main"
  /\ names \in SeqsOf(RawNames, 1, MaxNames)
  /\ apiKey = Nil
  /\ endless = FALSE
  /\ Start

NextMain ==
  \/ MainInvoke
  \/ MainSkipUnknown
  \/ FetchStart
  \/ Deadline
  \/ FetchCancelled
  \/ FetchPage
  \/ Attempt
  \/ SleepElapsed
  \/ SleepCancelled
  \/ DecodePrograms
  \/ EndPage
  \/ SkipProgram
  \/ FetchScope
  \/ DecodeScope
  \/ WriteAsset
  \/ ProgramDone
  \/ MainFatal
  \/ MainAccumulate
  \/ MainExit

SpecMain == InitMain /\ [][NextMain]_vars

\* =====================================================================
\* Properties
\* =====================================================================


IsPrefix(s, t) == Len(s) <= Len(t) /\ SubSeq(t, 1, Len(s)) = s

RECURSIVE Flatten(_)
Flatten(ss) == IF ss = <<>> THEN <<>> ELSE Head(ss) \o Flatten(Tail(ss))

\* The rows of a page that offer bounties, in page order.
BountyRows(rows) == SelectSeq(rows, LAMBDA d : d.offers_bounties)

\* The platform's pages before the page Fetch is at.
PagesBefore == Take(programsPages, page - 1)

\* Fetch ended at the top of the page loop, on a done context.
CancelledAtLoop == pc \in {"failed", "fatal"} /\ err = CtxErr

\* The current call is the scope call of row idx of the current page.
InScopeCall ==
  /\ url.ep = "structured_scopes"
  /\ pc \in {"request", "sleep", "decode", "emit", "failed", "fatal"}

\* The rows of the current page Fetch has reached so far.
ReachedRows == Take(pg, IF InScopeCall THEN idx ELSE idx - 1)

\* The calls a page gives rise to: the page itself, then one scope call per
\* bounty row among `rows`, in page order.
CallsFor(p, rows) ==
  <<ProgramsURL(p)>>
  \o [i \in 1..Len(BountyRows(rows)) |-> ScopeURL(BountyRows(rows)[i].handle)]

\* Fetch has not requested the page it is at.
NotRequested ==
  \/ invoked = <<>>
  \/ pc \in {"fetch", "loop"}
  \/ CancelledAtLoop

ExpectedCalls ==
  Flatten([p \in 1..Len(PagesBefore) |-> CallsFor(p, PagesBefore[p])])
  \o (IF NotRequested THEN <<>> ELSE CallsFor(page, ReachedRows))

PageCalls == SelectSeq(calls, LAMBDA u : u.ep = "programs")

\* The lines a scope page contributes: the identifiers of its entries
\* eligible for bounty, each ended by a newline.
LinesOf(h) ==
  LET es == SelectSeq(ScopeOf(h), LAMBDA e : e.eligible_for_bounty)
  IN  Flatten([i \in 1..Len(es) |-> es[i].asset_identifier \o <<"\n">>])

\* The whole expected output of a run over the platform's pages.
ExpectedOutput ==
  LET rows == BountyRows(Flatten(programsPages))
  IN  Flatten([i \in 1..Len(rows) |-> LinesOf(rows[i].handle)])

\* What Fetch has appended to the sink so far.
Written == file \o buf

\* The wording of the errors, as the properties read them.
IsTimeoutErr(e) == Contains(e, <<"deadline", "exceeded">>)
IsServerErr(e) == Contains(e, <<"API", "unavailable:">>)
IsDecodeErr(e) == Contains(e, <<"JSON", "decode", "failed:">>)

\* The current doRequestWithRetry call ended in an error of its own.
CallFailed == pc \in {"failed", "fatal"} /\ body = NoBody /\ lastErr # Nil
                /\ ~CancelledAtLoop /\ ~IsDecodeErr(err)

\* C1 (pagination termination): the programs pages are requested in the
\* order 1, 2, ... with none repeated or skipped and never past the first
\* empty page; while every round trip succeeds and the context is live no
\* request is retried and Fetch does not fail; and when Fetch returns it has
\* requested exactly the pages 1..N+1 (N the number of non-empty pages) and
\* its error is nil.
C1_PaginationTermination ==
  /\ PageCalls = [i \in 1..Len(PageCalls) |-> ProgramsURL(i)]
  /\ Len(PageCalls) <= Len(programsPages) + 1
  /\ clean => (pc \notin {"failed", "fatal"} /\ nreq <= 1 /\ sleeps = 0)
  /\ pc \in {"returned", "exited"} =>
       (err = Nil /\ Len(PageCalls) = Len(programsPages) + 1)

C1_Witness ==
  /\ pc = "returned"
  /\ clean
  /\ Len(programsPages) = 2
  /\ Len(PageCalls) = 3
  /\ err = Nil

\* C2 (program eligibility filter): at every point of every run, the calls
\* made so far are exactly, in order, each programs page followed by one
\* scope call for each row of it with offers_bounties = TRUE that Fetch has
\* reached: no call of any kind for a row with offers_bounties = FALSE, and
\* one call per eligible row.
C2_EligibilityFilter == calls = ExpectedCalls

C2_Witness ==
  /\ pc = "returned"
  /\ Len(programsPages) = 1
  /\ Len(programsPages[1]) = 2
  /\ ~programsPages[1][1].offers_bounties
  /\ programsPages[1][2].offers_bounties
  /\ calls = <<ProgramsURL(1), ScopeURL("h12"), ProgramsURL(2)>>

\* C3 (output content and order): what has been appended to the sink is at
\* every point a prefix of the expected output (the identifiers of the
\* entries eligible for bounty of the bounty programs, one per line, by
\* page, then row, then entry), and is the whole of it when Fetch returns
\* without error.
C3_OutputContentAndOrder ==
  /\ pc \notin {"fatal", "exited"} => IsPrefix(Written, ExpectedOutput)
  /\ pc = "returned" => (err = Nil /\ Written = ExpectedOutput)

C3_Witness ==
  /\ pc = "returned"
  /\ err = Nil
  /\ Len(BountyRows(Flatten(programsPages))) = 4
  /\ Written = ExpectedOutput
  /\ Len(ExpectedOutput) = 14
  /\ file # <<>>

\* C4 (processed count): processed is at every point the number of bounty
\* programs whose scope has been fetched, decoded and written out (the
\* bounty rows before the current one); it never counts a row without
\* bounties, and it changes only by one, when a program's assets (however
\* many) have all been written.
ProcessedExpected ==
  Len(BountyRows(Flatten(PagesBefore))) + Len(BountyRows(Take(pg, idx - 1)))

C4_ProcessedCount ==
  /\ [](processed = ProcessedExpected)
  /\ [][processed' # processed =>
          (processed' = processed + 1 /\ pc = "emit" /\ assets = <<>>)]_vars

C4_Witness ==
  /\ pc = "returned"
  /\ processed = 3
  /\ Len(Flatten(programsPages)) = 4
  /\ programsPages[1][2].offers_bounties
  /\ LinesOf("h12") = <<>>

\* C5 (retry budget): a sleep is taken before each attempt but the first
\* and before nothing else; and a call whose attempts all failed with a
\* "deadline exceeded" error while the context stayed live has made exactly
\* 3 attempts and slept exactly twice, and its error is the last attempt's
\* error, wrapped.
C5_RetryBudget ==
  /\ pc = "request" => (nreq = attempt /\ sleeps = attempt)
  /\ pc = "sleep" => (attempt >= 1 /\ nreq = attempt /\ sleeps = attempt - 1)
  /\ nreq <= 3 /\ sleeps <= 2
  /\ (CallFailed /\ IsTimeoutErr(lastErr) /\ ~ctxDone) =>
       /\ nreq = 3
       /\ sleeps = 2
       /\ err = FetchWrap(url, <<"despues", "de", "3", "intentos:">> \o lastErr)

C5_Witness ==
  /\ pc = "failed"
  /\ CallFailed
  /\ ~ctxDone
  /\ nreq = 3
  /\ sleeps = 2
  /\ IsTimeoutErr(lastErr)
  /\ url.ep = "structured_scopes"

\* C6 (server errors are retryable): a call that ended on a response with
\* status >= 500 while the context stayed live has used up its 3 attempts:
\* the failure was retried, with backoff, before it was reported.
C6_ServerErrorsRetried ==
  (CallFailed /\ IsServerErr(lastErr) /\ ~ctxDone) => (nreq = 3 /\ sleeps = 2)

\* C7 (non-retryable short-circuit): an attempt that fails with an error
\* that is not a "deadline exceeded" error ends the call at once, whichever
\* attempt it was: Fetch fails with that error (wrapped by Fetch only), no
\* sleep is taken, and no attempt is made afterwards.
C7_NonRetryableShortCircuit ==
  /\ [][(pc = "request" /\ nreq' = nreq + 1 /\ pc' # "decode"
          /\ ~IsTimeoutErr(lastErr'))
        => (/\ pc' = "failed"
            /\ err' = FetchWrap(url, lastErr')
            /\ sleeps' = sleeps
            /\ slept' = slept)]_vars
  /\ [][(pc = "failed" \/ pc = "fatal")
        => (/\ pc' \in {"failed", "fatal"}
            /\ nreq' = nreq
            /\ sleeps' = sleeps)]_vars

C7_Witness ==
  /\ pc = "failed"
  /\ CallFailed
  /\ lastErr = <<"API", "returned", "error", "404", "Not", "Found">>
  /\ nreq = 2
  /\ sleeps = 1

\* C8 (partial output survives a fatal error): when the run is ended by a
\* fetcher error, everything written to the sink before the error is in the
\* output file once the process has ended.
C8_PartialOutputSurvives ==
  [][(pc = "failed" /\ pc' = "fatal") => file' = file \o buf]_vars

\* C9 (cancellation during backoff): while the call waits in a backoff
\* sleep and the context is done, its next step is to return the context's
\* error: the sleep is not completed and no further attempt is made.
C9_CancelDuringBackoff ==
  [][(pc = "sleep" /\ ctxDone)
      => (/\ pc' = "failed"
          /\ err' = FetchWrap(url, CtxErr)
          /\ nreq' = nreq
          /\ sleeps' = sleeps
          /\ slept' = slept)]_vars

C9_Witness ==
  /\ pc = "failed"
  /\ ctxDone
  /\ err = FetchWrap(url, CtxErr)
  /\ nreq = 1
  /\ sleeps = 0
  /\ slept = 0

\* C10 (malformed response body): a decode step on a status-200 body that
\* is not JSON of the expected shape makes Fetch return a decode error and
\* nothing else: the request is not made again, nothing is written to the
\* sink and processed is not incremented, then or later.
MalformedBody == body.kind \in {"syntax", "mismatch"}

C10_MalformedBody ==
  /\ [][(pc = "decode" /\ MalformedBody /\ pc' # "decode")
        => (/\ pc' = "failed"
            /\ IsDecodeErr(err')
            /\ nreq' = nreq
            /\ calls' = calls
            /\ Written' = Written
            /\ processed' = processed)]_vars
  /\ [][(pc = "failed")
        => (/\ pc' = "fatal"
            /\ nreq' = nreq
            /\ calls' = calls
            /\ file' = file
            /\ processed' = processed
            /\ err' = err)]_vars

C10_Witness ==
  /\ pc = "failed"
  /\ IsDecodeErr(err)
  /\ url.ep = "structured_scopes"
  /\ body.kind = "syntax"
  /\ nreq = 1
  /\ processed = 1
  /\ ProcessedExpected = 1

\* ------------------------------------------------------------------ C11
\* The names of the -program flag that resolve to a fetcher, normalised, in
\* the order given.
RECURSIVE KnownOf(_)
KnownOf(ns) ==
  IF ns = <<>> THEN <<>>
  ELSE (IF NormalizeName(Head(ns)) \in Fetchers
          THEN <<NormalizeName(Head(ns))>> ELSE <<>>) \o KnownOf(Tail(ns))

KnownNames == KnownOf(names)

RECURSIVE Sum(_)
Sum(ns) == IF ns = <<>> THEN 0 ELSE Head(ns) + Sum(Tail(ns))

\* The fetchers are invoked one at a time, in the order of the names, the
\* unknown names left out.
C11_InOrder ==
  /\ IsPrefix(invoked, KnownNames)
  /\ invoked = KnownOf(Take(names, IF pc = "main" THEN ni - 1 ELSE ni))
  /\ pc = "exited" => ni = Len(names) + 1

\* After a fetcher's error no total is printed; a printed total comes after
\* every resolved fetcher returned nil, and is the sum of their counts.
C11_Total ==
  /\ err # Nil => printed = Nil
  /\ err # Nil => pc \in {"failed", "fatal"}
  /\ printed # Nil =>
       /\ pc = "exited"
       /\ invoked = KnownNames
       /\ Len(counts) = Len(KnownNames)
       /\ printed = <<Sum(counts)>>

\* C11 (fail-fast run): the names are processed one after the other in the
\* order given, an unknown name is skipped and the run goes on; after the
\* first fetcher error no other fetcher is invoked and no total is printed;
\* the total is printed only after every resolved fetcher returned nil, and
\* is the sum of their counts.
C11_FailFast ==
  /\ [](C11_InOrder /\ C11_Total)
  /\ [][(err # Nil) => (invoked' = invoked /\ printed' = Nil /\ err' = err)]_vars

\* A run whose first fetcher failed with a resolved name left uninvoked.
C11_Witness ==
  /\ pc = "fatal"
  /\ Len(invoked) < Len(KnownNames)
  /\ \E i \in 1..Len(names) : NormalizeName(names[i]) \notin Fetchers

\* ------------------------------------------------------------------ C12
\* C12 (decode fault guard): a body on which the decoder panics makes
\* safeUnmarshal return a decode error, so that Fetch fails with it and does
\* not go on with what the body had decoded to.
C12_DecodeFaultGuard ==
  [][(pc = "decode" /\ body.kind = "fault" /\ pc' # "decode")
     => (pc' = "failed" /\ IsDecodeErr(err'))]_vars

\* ------------------------------------------------------------------ C13
\* C13 (backoff schedule): the sleep before the k-th retry is 2^(k-1)
\* seconds: a call has slept 1 second when it makes its 2nd attempt and 3
\* seconds when it makes its 3rd, so 3 seconds when its attempts are used up.
C13_BackoffSchedule ==
  /\ (pc = "request" /\ attempt = 1) => slept = 1
  /\ (pc = "request" /\ attempt = 2) => slept = 1 + 2
  /\ (CallFailed /\ nreq = 3) => slept = 1 + 2

\* ------------------------------------------------------------------ C14
\* Fetch is between its first statement and its return.
InFetch == pc \in {"fetch", "loop", "request", "sleep", "decode", "prog", "emit"}

\* C14 (abort on any error): a request that ends a call in an error and a
\* decode that fails, of a programs page or of a scope, make Fetch return
\* that error, wrapped, with the count processed so far; an error is set by
\* no other step; after the return no request is made, nothing is written
\* and the count and the error stay.
C14_AbortOnAnyError ==
  /\ [][(pc = "decode" /\ safeUnmarshal(body).err # Nil /\ pc' # pc)
        => (/\ pc' = "failed"
            /\ Contains(err', safeUnmarshal(body).err)
            /\ processed' = processed
            /\ Written' = Written)]_vars
  /\ [][(pc \in {"request", "sleep"} /\ pc' \notin {"request", "sleep", "decode"})
        => (/\ pc' = "failed"
            /\ err' \in {FetchWrap(url, lastErr'),
                         FetchWrap(url, Exhausted(lastErr')),
                         FetchWrap(url, CtxErr)}
            /\ err' # FetchWrap(url, Nil)
            /\ processed' = processed
            /\ Written' = Written)]_vars
  /\ [][(InFetch /\ pc' = "failed")
        => (err' # Nil /\ processed' = processed)]_vars
  /\ [][(err' # err) => (InFetch /\ pc' = "failed")]_vars
  /\ [][(pc \in {"failed", "fatal"})
        => (/\ pc' = "fatal"
            /\ calls' = calls
            /\ nreq' = nreq
            /\ file' = file
            /\ Len(Written') <= Len(Written)
            /\ processed' = processed
            /\ err' = err)]_vars

\* Fetch failed on the scope of its second bounty program, after a retry.
C14_Witness ==
  /\ pc = "fatal"
  /\ processed = 1
  /\ url.ep = "structured_scopes"
  /\ IsTimeoutErr(err)
  /\ nreq = 3
  /\ Len(calls) >= 3

\* ------------------------------------------------------------------ C15
\* Once the context is done no backoff sleep runs to its end, no programs
\* page is requested, and the request or sleep under way ends in the
\* context's error.
CancelShortCircuits ==
  /\ [][ctxDone => ~(pc = "sleep" /\ pc' = "request")]_vars
  /\ [][ctxDone => PageCalls' = PageCalls]_vars
  /\ [][(ctxDone /\ pc = "request" /\ pc' # pc)
        => (pc' \in {"sleep", "failed"} /\ Contains(lastErr', CtxErr))]_vars
  /\ [][(ctxDone /\ pc = "sleep" /\ pc' # pc)
        => (pc' = "failed" /\ err' = FetchWrap(url, CtxErr))]_vars

\* Fetch returned nil on the empty programs page it had received.
ReturnedOnEmptyPage ==
  /\ pc = "returned"
  /\ err = Nil
  /\ url.ep = "programs"
  /\ body = [kind |-> "json", data |-> <<>>]

\* C15 as stated (cancellation short-circuits retries and pagination): once
\* the context is done, no retry attempt is started and no further programs
\* page is requested, the request or sleep under way ends in the context's
\* error, and Fetch returns the context's error with the count processed so
\* far, unless it had already reached the empty final page.
C15_CancelReturnsCtxErr ==
  /\ CancelShortCircuits
  /\ []((ctxDone /\ pc \in {"failed", "fatal"})
          => (Contains(err, CtxErr) /\ processed = ProcessedExpected))
  /\ []((ctxDone /\ pc = "returned") => ReturnedOnEmptyPage)

\* C15, amended: as stated, but the error Fetch returns on a done context
\* is the context's error or the decode error of a body that had been
\* received in full before Fetch looked at the context again.
C15_Cancellation ==
  /\ CancelShortCircuits
  /\ []((ctxDone /\ pc \in {"failed", "fatal"})
          => (/\ \/ Contains(err, CtxErr)
                 \/ IsDecodeErr(err) /\ MalformedBody
              /\ processed = ProcessedExpected))
  /\ []((ctxDone /\ pc = "returned") => ReturnedOnEmptyPage)
  /\ [][(ctxDone /\ pc \in {"loop", "request", "sleep"} /\ pc' = "failed")
        => Contains(err', CtxErr)]_vars

\* The deadline fired while a program's lines were written; Fetch returned
\* the context's error from the next scope request, one program processed.
C15_Witness ==
  /\ pc = "failed"
  /\ ctxDone
  /\ Contains(err, CtxErr)
  /\ processed = 1
  /\ url.ep = "structured_scopes"
  /\ sleeps = 0

\* ------------------------------------------------------------------ C17
HasColon(s) == \E i \in 1..Len(s) : s[i] = ":"

\* s is a ++ ":" ++ b with no ":" in a.
SplitOnFirst(s, a, b) == s = a \o <<":">> \o b /\ ~HasColon(a)

\* C17 (credential format): on a credential string without ":" Fetch returns
\* the invalid-format error and the count 0, having made no request and
\* written nothing; on a string with one ":" or more it takes what comes
\* before the first ":" as the username and all that comes after it as the
\* key, and goes on to page 1.
C17_CredentialFormat ==
  /\ [][(pc = "fetch" /\ ~HasColon(apiKey) /\ pc' # pc)
        => (/\ pc' = "failed"
            /\ err' = InvalidCredErr
            /\ processed' = 0
            /\ calls' = <<>> /\ nreq' = 0
            /\ Written' = <<>>)]_vars
  /\ [][(pc = "fetch" /\ HasColon(apiKey) /\ pc' # pc)
        => (/\ pc' = "loop"
            /\ page' = 1
            /\ err' = Nil
            /\ Len(parts') = 2
            /\ SplitOnFirst(apiKey, parts'[1], parts'[2])
            /\ auth' = <<"base64">> \o apiKey)]_vars
  /\ [](err = InvalidCredErr => (~HasColon(apiKey) /\ calls = <<>> /\ Written = <<>>))
  /\ []((pc \notin {"fetch", "failed", "fatal"} \/ calls # <<>>)
          => (Len(parts) = 2 /\ SplitOnFirst(apiKey, parts[1], parts[2])))

\* Fetch requested page 1 with credentials of two ":".
C17_Witness ==
  /\ apiKey = <<"u", ":", ":">>
  /\ parts = << <<"u">>, <<":">> >>
  /\ pc = "request"
  /\ url = ProgramsURL(1)

\* ------------------------------------------------------------------ C18
\* The lines of the first n bounty programs of the platform, in page and
\* row order.
FirstLines(n) ==
  LET rows == BountyRows(Flatten(programsPages))
  IN  Flatten([i \in 1..Min(n, Len(rows)) |-> LinesOf(rows[i].handle)])

\* C18 (per-program atomicity): whenever Fetch returns, with an error or
\* without, the sink holds the lines of the first `processed` bounty
\* programs and no other; lines are written only once the program's scope
\* has been fetched and decoded, and the writing of a program's lines is
\* never cut short, so the program Fetch failed on has no line in the sink.
C18_ProgramAtomicity ==
  /\ []((pc \in {"returned", "failed"}) => Written = FirstLines(processed))
  /\ []((pc = "emit") =>
          /\ url.ep = "structured_scopes"
          /\ body = ServerBody(url)
          /\ Written \o Flatten([i \in 1..Len(assets) |-> assets[i] \o <<"\n">>])
               = FirstLines(processed + 1))
  /\ [][(Written' # Written /\ pc # "failed") => (pc = "emit" /\ pc' = "emit")]_vars
  /\ [][(pc = "emit") => (pc' = "emit" \/ (pc' = "prog" /\ assets = <<>>))]_vars

\* Fetch failed on a program that has eligible assets, after it wrote the
\* lines of one program.
C18_Witness ==
  /\ pc = "failed"
  /\ processed = 1
  /\ url.ep = "structured_scopes"
  /\ LinesOf(url.handle) # <<>>
  /\ Written = FirstLines(1)
  /\ Written # <<>>

\* ------------------------------------------------------------------ C16
\* C16 (termination): with a deadline on the context and the thread of
\* control scheduled, Fetch returns in the end, with or without an error,
\* also on a platform that never serves an empty page and also when every
\* request times out; the pages it requests are 1, 2, 3, ... in one pass:
\* page 1 is never requested again.
C16_Termination ==
  /\ <>(pc \in {"returned", "failed"})
  /\ [][PageCalls' # PageCalls
        => PageCalls' = Append(PageCalls, ProgramsURL(Len(PageCalls) + 1))]_vars
  /\ [][page' >= page]_vars

\* Fetch returned on the deadline, on a platform that never serves an empty
\* page, after it requested three pages.
C16_Witness ==
  /\ endless
  /\ pc = "failed"
  /\ ctxDone
  /\ Len(PageCalls) >= 3
====
